---- MODULE Spec2Model ----
(***************************************************************************)
(* Model of auto_commit.py: the cron-driven commit scheduler.  Every       *)
(* invocation of main() either generates and persists the day's commit     *)
(* times, does nothing, or bumps the counter, commits, pushes and removes  *)
(* the head of the persisted schedule.                                     *)
(*                                                                         *)
(* Time is counted in whole hours of US/Eastern wall-clock time since a    *)
(* Monday 00:00 (the code draws offsets in whole seconds; the hour is the  *)
(* unit of the model).  The UTC offset of US/Eastern is taken as constant  *)
(* over the modelled days.  Spec is the program with a reliable file        *)
(* system, where only git commit and git push can fail; SpecFaults lets    *)
(* every step of main() fail.  A failing file operation fails when the     *)
(* file is opened and leaves the file as it was.                           *)
(***************************************************************************)
EXTENDS Integers, Sequences, FiniteSets, TLC

\* ---------------------------------------------------------------- bounds
\* largest number of commit times drawn for a weekday (10 in the code)
MaxCommits == 2
\* update_counter() is called at most this many times in a behaviour
MaxBumps == 2
\* the clock stops after this many hours past StartNow
MaxHours == 12

\* ------------------------------------------------------ program constants
HoursPerDay == 24
DaysPerWeek == 7
Sunday == 6
WeekdayStart == 9
WeekdayEnd == 19
SundayStart == 11
SundayEnd == 16
IncMin == 1
IncMax == 100

\* The first modelled instant: Saturday 13:00 (weekday() = 5), so that both
\* a weekday and the restricted day are reached.
StartNow == 5 * HoursPerDay + 13

\* Difference, in hours, between US/Eastern and the zone of the machine:
\* 0 on a machine in US/Eastern, -5 on a machine in UTC.
LocalShifts == {0, 0 - 5}

\* random.randint(0, 100)
IncrementsFromZero == {IncMin - 1, IncMax}

\* random.randint(1, 100): the two ends of the range
Increments == {IncMin, IncMax}

\* Places where an invocation can fail; "none" is the run without failure.
GitFaults == {"none", "commit", "push"}
AllFaults == GitFaults \cup {"repo", "load", "counter_read", "counter_write", "save"}

VARIABLES
    now,          \* datetime.now(TIMEZONE), in hours
    localShift,   \* zone of the machine relative to US/Eastern
    schedFile,    \* commit_times.json: [exists, text], text the JSON tokens
    counterFile,  \* counter.txt: [exists, value], value the decimal text
    last,         \* what the last invocation of main() did
    bumps,        \* calls of update_counter() so far
    genBumps,     \* calls of update_counter() since the schedule was generated
    genConsumed,  \* entries popped since the schedule was generated
    genFailed,    \* invocations aborted by commit/push since generation
    headCommits,  \* git commits created while the current head entry was head
    genDate,      \* [any, date]: the date of the last generation, if any
    genToday,     \* schedules generated on the date genDate.date
    call,         \* one call of a function on its own: [fn, args, done, ret]
    race          \* two overlapping invocations of main(), step by step

vars == <<now, localShift, schedFile, counterFile, last, bumps, genBumps,
          genConsumed, genFailed, headCommits, genDate, genToday, call, race>>

\* ------------------------------------------------------------ time, text
Date(t) == t \div HoursPerDay

\* datetime.weekday(): Monday is 0, Sunday is 6
Weekday(t) == Date(t) % DaysPerWeek

\* datetime.isoformat(): the text "<date>T<hour>...", as its fields.  All
\* texts have the same width, so the order of the texts is the
\* lexicographic order of the fields.
IsoFormat(t) == <<Date(t), t % HoursPerDay>>

\* datetime.fromisoformat(text).astimezone(TIMEZONE)
FromIso(s) == s[1] * HoursPerDay + s[2]

\* str.__lt__ on two isoformat texts
StrLess(a, b) == a[1] < b[1] \/ (a[1] = b[1] /\ a[2] < b[2])

RECURSIVE InsertSorted(_, _)
InsertSorted(x, s) ==
    IF s = <<>> THEN <<x>>
    ELSE IF StrLess(x, Head(s)) THEN <<x>> \o s
    ELSE <<Head(s)>> \o InsertSorted(x, Tail(s))

RECURSIVE SortTexts(_)
SortTexts(s) == IF s = <<>> THEN <<>> ELSE InsertSorted(Head(s), SortTexts(Tail(s)))

\* sorted(commit_times) with the sort left out
sortedMutant(s) == s

\* sorted(commit_times)
sorted(s) == SortTexts(s)

\* ------------------------------------------------------ select_commit_times
\* working_hours chosen by main() from the weekday
working_hours(t) ==
    IF Weekday(t) < Sunday THEN <<WeekdayStart, WeekdayEnd>>
    ELSE <<SundayStart, SundayEnd>>

\* the values num_commits can take with zero commits allowed
NumCommitsMutant(t) == IF Weekday(t) = Sunday THEN {1} ELSE 0..MaxCommits

\* the values num_commits can take: 1 on Sunday, random.randint(1, 10) else
NumCommits(t) == IF Weekday(t) = Sunday THEN {1} ELSE 1..MaxCommits

\* datetime.combine(today, time).astimezone(TIMEZONE): the naive time is
\* read as a time of the machine's zone and converted to US/Eastern.
WindowInstant(t, hour, shift) == Date(t) * HoursPerDay + hour + shift

\* delta = (end_time - start_time).total_seconds(), in hours
Delta(wh) == wh[2] - wh[1]

\* the values of random.randint(0, int(delta)) that are drawn: both ends and
\* the middle of the range
OffsetChoices(wh) == {0, Delta(wh) \div 2, Delta(wh)}

\* offsets[i] is the i-th random.randint(0, int(delta))
select_commit_times(wh, num_commits, offsets, t, shift) ==
    LET start_time == WindowInstant(t, wh[1], shift)
        commit_times == [i \in 1..num_commits |-> IsoFormat(start_time + offsets[i])]
    IN sorted(commit_times)

\* ------------------------------------------------------------ the stores
\* One token of a JSON text: "[", "]", "," or a string literal with its text.
Punct(c) == [t |-> c, v |-> <<>>]
Literal(text) == [t |-> "str", v |-> text]

\* the items of a JSON array, a comma before each but the first
RECURSIVE JsonItems(_)
JsonItems(list) ==
    IF list = <<>> THEN <<>>
    ELSE IF Len(list) = 1 THEN <<Literal(list[1])>>
    ELSE <<Literal(Head(list)), Punct(",")>> \o JsonItems(Tail(list))

\* json.dump(commit_times, file): the text written
JsonDump(list) == <<Punct("[")>> \o JsonItems(list) \o <<Punct("]")>>

\* the strings of the items of a JSON array, in the order of the text
RECURSIVE JsonStrings(_)
JsonStrings(tokens) ==
    IF tokens = <<>> THEN <<>>
    ELSE IF Head(tokens).t = "str"
         THEN <<Head(tokens).v>> \o JsonStrings(Tail(tokens))
         ELSE JsonStrings(Tail(tokens))

\* json.load(file) reading the array back to front
JsonLoadReversed(text) ==
    LET l == JsonStrings(SubSeq(text, 2, Len(text) - 1))
    IN [i \in 1..Len(l) |-> l[Len(l) + 1 - i]]

\* json.load(file): the list of the array between the brackets
JsonLoad(text) == JsonStrings(SubSeq(text, 2, Len(text) - 1))

\* load_commit_times(): the list of the file, [] when the file is absent
load_commit_times(file) == IF file.exists THEN JsonLoad(file.text) ELSE <<>>

\* save_commit_times(commit_times)
save_commit_times(commit_times) == [exists |-> TRUE, text |-> JsonDump(commit_times)]

\* A decimal text is the sequence of its characters: a digit is its value,
\* the minus sign is Minus.
Minus == 0 - 1

\* the decimal digits of a natural number
RECURSIVE Digits(_)
Digits(n) == IF n < 10 THEN <<n>> ELSE Digits(n \div 10) \o <<n % 10>>

\* str(new_counter): the text written to counter.txt
StrOfInt(n) == IF n < 0 THEN <<Minus>> \o Digits(0 - n) ELSE Digits(n)

\* the value of a text of digits
RECURSIVE DigitsValue(_)
DigitsValue(d) ==
    IF d = <<>> THEN 0 ELSE 10 * DigitsValue(SubSeq(d, 1, Len(d) - 1)) + d[Len(d)]

\* int(file.read().strip())
IntOfStr(text) ==
    IF text # <<>> /\ Head(text) = Minus THEN 0 - DigitsValue(Tail(text))
    ELSE DigitsValue(text)

\* the file after file.write(str(n))
write_counter(n) == [exists |-> TRUE, value |-> StrOfInt(n)]

\* the text update_counter() reads: "0" written first when the file is absent
counter_text(file) == IF file.exists THEN file.value ELSE StrOfInt(0)

\* update_counter() with the increment subtracted
update_counterMutant(file, increment) ==
    LET counter == IntOfStr(counter_text(file))
    IN [counter |-> counter, new_counter |-> counter - increment]

\* update_counter() starting an absent file at 1
update_counterAbsentOne(file, increment) ==
    LET counter == IF file.exists THEN IntOfStr(file.value) ELSE 1
    IN [counter |-> counter, new_counter |-> counter + increment]

\* update_counter() adding the increment twice
update_counterTwice(file, increment) ==
    LET counter == IntOfStr(counter_text(file))
    IN [counter |-> counter, new_counter |-> counter + increment + increment]

\* update_counter(): (counter, new_counter); an absent file is created as 0
update_counter(file, increment) ==
    LET counter == IntOfStr(counter_text(file))
    IN [counter |-> counter, new_counter |-> counter + increment]

\* the stored counter as update_counter() would read it
CounterValue(file) == IntOfStr(counter_text(file))

\* ------------------------------------------------------------------ main
\* next_commit_time = datetime.fromisoformat(commit_times[0])...
next_commit_time(commit_times) == FromIso(commit_times[1])

\* the test of line 118 the wrong way round: now <= next_commit_time
IsDueReversed(t, next) == t <= next

\* the test of line 118 answering yes at any time
IsDueMutant(t, next) == TRUE

\* now >= next_commit_time
IsDue(t, next) == t >= next

\* push_changes() logging the error and returning
ReraisesExceptPush(step) == step # "push"

\* make_commit() logging the error and returning
ReraisesExceptCommit(step) == step # "commit"

\* the raise that ends the except blocks of make_commit() and push_changes()
Reraises(step) == TRUE

\* commit_times.pop(): the last entry removed instead of the first
pop_last(commit_times) == SubSeq(commit_times, 1, Len(commit_times) - 1)

\* commit_times.pop(0): the list that is left
pop_head(commit_times) == Tail(commit_times)

\* the class of the exception each failure raises
Raised(fail) ==
    CASE fail = "repo" -> "InvalidGitRepositoryError"
      [] fail = "load" -> "JSONDecodeError"
      [] fail = "counter_read" -> "ValueError"
      [] fail = "counter_write" -> "OSError"
      [] fail = "commit" -> "GitCommandError"
      [] fail = "push" -> "GitCommandError"
      [] fail = "save" -> "OSError"
      [] OTHER -> "none"

\* the classes derived from Exception
ExceptionClasses ==
    {"InvalidGitRepositoryError", "JSONDecodeError", "ValueError", "OSError",
     "GitCommandError"}

\* a handler that catches the git errors only
HandlerCatchesMutant(exc) == exc = "GitCommandError"

\* except Exception as e
HandlerCatches(exc) == exc \in ExceptionClasses

NoInvocation ==
    [branch |-> "init", fail |-> "none", raised |-> "none", propagated |-> FALSE,
     errors |-> <<>>, steps |-> <<>>, commits |-> 0, pushes |-> 0, inc |-> 0,
     prevLen |-> 0, entryCommits |-> 0]

\* no function is called on its own
NoCall == [fn |-> "none", args |-> <<>>, done |-> FALSE, ret |-> <<>>]

\* no invocations overlap
NoRace == [on |-> FALSE]

Init ==
    /\ now = StartNow
    /\ localShift \in LocalShifts
    /\ schedFile = [exists |-> FALSE, text |-> <<>>]
    /\ counterFile = [exists |-> FALSE, value |-> <<>>]
    /\ last = NoInvocation
    /\ bumps = 0
    /\ genBumps = 0
    /\ genConsumed = 0
    /\ genFailed = 0
    /\ headCommits = 0
    /\ genDate = [any |-> FALSE, date |-> 0]
    /\ genToday = 0
    /\ call = NoCall
    /\ race = NoRace

\* The external trigger lets an hour pass.
Tick ==
    /\ now < StartNow + MaxHours
    /\ now' = now + 1
    /\ UNCHANGED <<localShift, schedFile, counterFile, last, bumps, genBumps,
                   genConsumed, genFailed, headCommits, genDate, genToday,
                   call, race>>

\* One invocation of main().  fail is the place where this invocation
\* fails, if it gets there; increment, num_commits and offsets are the
\* random draws.
main(fail, increment, num_commits, offsets) ==
    LET repo_ok == fail # "repo"
        load_ok == repo_ok /\ fail # "load"
        commit_times == load_commit_times(schedFile)
        setup == load_ok /\ commit_times = <<>>
        generated == select_commit_times(working_hours(now), num_commits,
                                         offsets, now, localShift)
        setup_ok == setup /\ fail # "save"
        due == load_ok /\ commit_times # <<>>
                 /\ IsDue(now, next_commit_time(commit_times))
        read_ok == due /\ fail # "counter_read"
        write_ok == read_ok /\ fail # "counter_write"
        commit_ok == write_ok /\ fail # "commit"
        commit_ret == write_ok /\ (commit_ok \/ ~Reraises("commit"))
        push_ok == commit_ret /\ fail # "push"
        push_ret == commit_ret /\ (push_ok \/ ~Reraises("push"))
        pop_ok == push_ret /\ fail # "save"
        bump == update_counter(counterFile, increment)
        failed == \/ ~load_ok
                  \/ setup /\ ~setup_ok
                  \/ due /\ ~pop_ok
        exc == IF failed THEN Raised(fail) ELSE "none"
        caught == failed /\ HandlerCatches(exc)
        branch == IF ~load_ok THEN "early"
                  ELSE IF setup THEN "setup"
                  ELSE IF due THEN "commit" ELSE "wait"
        steps == (IF due THEN <<"counter">> ELSE <<>>)
                 \o (IF write_ok THEN <<"commit">> ELSE <<>>)
                 \o (IF commit_ret THEN <<"push">> ELSE <<>>)
                 \o (IF push_ret THEN <<"save">> ELSE <<>>)
                 \o (IF setup THEN <<"save">> ELSE <<>>)
        errors == (IF write_ok /\ ~commit_ok THEN <<"Commit failed">> ELSE <<>>)
                  \o (IF commit_ret /\ ~push_ok THEN <<"Push failed">> ELSE <<>>)
                  \o (IF caught THEN <<"Script error">> ELSE <<>>)
    IN  /\ bumps < MaxBumps
        /\ schedFile' =
              IF setup_ok THEN save_commit_times(generated)
              ELSE IF pop_ok THEN save_commit_times(pop_head(commit_times))
              ELSE schedFile
        /\ counterFile' =
              IF write_ok THEN write_counter(bump.new_counter)
              ELSE IF due THEN write_counter(bump.counter)
              ELSE counterFile
        /\ last' = [branch |-> branch, fail |-> (IF failed THEN fail ELSE "none"),
                    raised |-> exc,
                    propagated |-> (failed /\ ~caught),
                    errors |-> errors, steps |-> steps,
                    commits |-> (IF commit_ok THEN 1 ELSE 0),
                    pushes |-> (IF push_ok THEN 1 ELSE 0),
                    inc |-> (IF write_ok THEN bump.new_counter - bump.counter ELSE 0),
                    prevLen |-> Len(commit_times),
                    entryCommits |-> (IF commit_ok THEN headCommits + 1
                                      ELSE IF due THEN headCommits ELSE 0)]
        /\ bumps' = IF due THEN bumps + 1 ELSE bumps
        /\ genBumps' = IF setup_ok THEN 0
                       ELSE IF write_ok THEN genBumps + 1 ELSE genBumps
        /\ genConsumed' = IF setup_ok THEN 0
                          ELSE IF pop_ok THEN genConsumed + 1 ELSE genConsumed
        /\ genFailed' = IF setup_ok THEN 0
                        ELSE IF write_ok /\ ~(commit_ok /\ push_ok) THEN genFailed + 1
                        ELSE genFailed
        /\ headCommits' = IF setup_ok \/ pop_ok THEN 0
                          ELSE IF commit_ok THEN headCommits + 1
                          ELSE headCommits
        /\ genDate' = IF setup_ok THEN [any |-> TRUE, date |-> Date(now)] ELSE genDate
        /\ genToday' = IF ~setup_ok THEN genToday
                       ELSE IF genDate.any /\ genDate.date = Date(now)
                            THEN genToday + 1 ELSE 1
        /\ UNCHANGED <<now, localShift, call, race>>

\* The random draws of one invocation: an invocation that finds a schedule
\* draws no commit times, one that finds none draws no increment.
Draws(fail) ==
    IF load_commit_times(schedFile) = <<>>
    THEN \E num_commits \in NumCommits(now) :
            \E offsets \in [1..num_commits -> OffsetChoices(working_hours(now))] :
                main(fail, IncMin, num_commits, offsets)
    ELSE \E increment \in Increments :
            main(fail, increment, 1, <<0>>)

\* an invocation in which only the git commands can fail
MainGit == \E fail \in GitFaults : Draws(fail)

\* an invocation in which every step can fail
MainAny == \E fail \in AllFaults : Draws(fail)

Next == Tick \/ MainGit

Spec == Init /\ [][Next]_vars

NextFaults == Tick \/ MainAny

SpecFaults == Init /\ [][NextFaults]_vars

\* ------------------------------------------- select_commit_times on its own
\* the hours a window is drawn from: the hours of main() in both orders
WindowHours == {WeekdayStart, SundayStart, SundayEnd, WeekdayEnd}

\* random.randint(a, b) with the upper end one too far
RandintPastEnd(a, b) == a..(b + 1)

\* random.randint(a, b): the values it returns, none when b < a
Randint(a, b) == a..b

\* What a call of select_commit_times returns or raises: with an end before
\* the start random.randint raises ValueError at the first draw; with
\* equal ends it returns 0.
select_result(wh, num_commits, offsets, t, shift) ==
    IF num_commits > 0 /\ Randint(0, Delta(wh)) = {}
    THEN [raised |-> "ValueError", times |-> <<>>]
    ELSE [raised |-> "none",
          times |-> select_commit_times(wh, num_commits, offsets, t, shift)]

\* the draws of a call: as many offsets as commits, none when randint raises
OffsetDraws(wh, num_commits) ==
    IF Randint(0, Delta(wh)) = {} THEN {<<>>}
    ELSE [1..num_commits -> Randint(0, Delta(wh))]

InitSelect ==
    /\ now = StartNow
    /\ localShift \in LocalShifts
    /\ schedFile = [exists |-> FALSE, text |-> <<>>]
    /\ counterFile = [exists |-> FALSE, value |-> <<>>]
    /\ last = NoInvocation
    /\ bumps = 0 /\ genBumps = 0 /\ genConsumed = 0 /\ genFailed = 0
    /\ headCommits = 0
    /\ genDate = [any |-> FALSE, date |-> 0]
    /\ genToday = 0
    /\ race = NoRace
    /\ \E start \in WindowHours, end \in WindowHours, n \in 0..MaxCommits :
          \E offsets \in OffsetDraws(<<start, end>>, n) :
              call = [fn |-> "select_commit_times",
                      args |-> [wh |-> <<start, end>>, num_commits |-> n,
                                offsets |-> offsets],
                      done |-> FALSE, ret |-> <<>>]

\* the call of select_commit_times(working_hours, num_commits)
SelectCall ==
    /\ call.fn = "select_commit_times" /\ ~call.done
    /\ call' = [call EXCEPT
                  !.done = TRUE,
                  !.ret = select_result(call.args.wh, call.args.num_commits,
                                        call.args.offsets, now, localShift)]
    /\ UNCHANGED <<now, localShift, schedFile, counterFile, last, bumps,
                   genBumps, genConsumed, genFailed, headCommits, genDate,
                   genToday, race>>

NextSelect == SelectCall

SpecSelect == InitSelect /\ [][NextSelect]_vars

\* ------------------------------------------------ update_counter on its own
\* update_counter() is called at most this many times in a row
MaxCalls == 3

\* the values of random.randint(1, 100) drawn here: the two lowest and the
\* two highest
IncrementDraws == {IncMin, IncMin + 1, IncMax - 1, IncMax}

\* the counter files a run of calls starts from: none, "0", "7", "99"
InitialCounterFiles ==
    {[exists |-> FALSE, value |-> <<>>]}
        \cup {write_counter(n) : n \in {0, IncMin + 6, IncMax - 1}}

InitCounter ==
    /\ now = StartNow
    /\ localShift \in LocalShifts
    /\ schedFile = [exists |-> FALSE, text |-> <<>>]
    /\ counterFile \in InitialCounterFiles
    /\ last = NoInvocation
    /\ bumps = 0 /\ genBumps = 0 /\ genConsumed = 0 /\ genFailed = 0
    /\ headCommits = 0
    /\ genDate = [any |-> FALSE, date |-> 0]
    /\ genToday = 0
    /\ race = NoRace
    /\ call = [fn |-> "update_counter", args |-> [initial |-> counterFile],
               done |-> FALSE,
               ret |-> [n |-> 0, sum |-> 0, stored |-> 0, counter |-> 0,
                        new_counter |-> 0]]

\* one call of update_counter(); stored is the value in the file before it
CounterCall ==
    /\ call.fn = "update_counter" /\ call.ret.n < MaxCalls
    /\ \E increment \in IncrementDraws :
          LET r == update_counter(counterFile, increment)
          IN /\ counterFile' = write_counter(r.new_counter)
             /\ call' = [call EXCEPT
                           !.done = TRUE,
                           !.ret = [n |-> call.ret.n + 1,
                                    sum |-> call.ret.sum + increment,
                                    stored |-> IF counterFile.exists
                                               THEN IntOfStr(counterFile.value)
                                               ELSE 0,
                                    counter |-> r.counter,
                                    new_counter |-> r.new_counter]]
    /\ UNCHANGED <<now, localShift, schedFile, last, bumps, genBumps,
                   genConsumed, genFailed, headCommits, genDate, genToday, race>>

NextCounter == CounterCall

SpecCounter == InitCounter /\ [][NextCounter]_vars

\* ------------------------------- save_commit_times and load_commit_times
\* the ISO texts the schedules to save are made of
StoreTexts ==
    {IsoFormat(StartNow), IsoFormat(StartNow + 1),
     IsoFormat(StartNow + HoursPerDay), IsoFormat(StartNow + HoursPerDay + 1)}

\* the schedules to save: every list of at most MaxCommits texts, in any order
StoreSchedules == UNION {[1..n -> StoreTexts] : n \in 0..MaxCommits}

InitStore ==
    /\ now = StartNow
    /\ localShift \in LocalShifts
    /\ schedFile \in {[exists |-> FALSE, text |-> <<>>],
                      save_commit_times(<<IsoFormat(StartNow)>>)}
    /\ counterFile = [exists |-> FALSE, value |-> <<>>]
    /\ last = NoInvocation
    /\ bumps = 0 /\ genBumps = 0 /\ genConsumed = 0 /\ genFailed = 0
    /\ headCommits = 0
    /\ genDate = [any |-> FALSE, date |-> 0]
    /\ genToday = 0
    /\ race = NoRace
    /\ \/ \E schedule \in StoreSchedules :
             call = [fn |-> "save_commit_times", args |-> [schedule |-> schedule],
                     done |-> FALSE, ret |-> <<>>]
       \/ call = [fn |-> "load_commit_times", args |-> [found |-> schedFile.exists],
                  done |-> FALSE, ret |-> <<>>]

\* save_commit_times(schedule); load_commit_times() is called next
SaveCall ==
    /\ call.fn = "save_commit_times" /\ ~call.done
    /\ schedFile' = save_commit_times(call.args.schedule)
    /\ call' = [call EXCEPT !.fn = "save_load"]
    /\ UNCHANGED <<now, localShift, counterFile, last, bumps, genBumps,
                   genConsumed, genFailed, headCommits, genDate, genToday, race>>

\* load_commit_times()
LoadCall ==
    /\ call.fn \in {"save_load", "load_commit_times"} /\ ~call.done
    /\ call' = [call EXCEPT !.done = TRUE, !.ret = load_commit_times(schedFile)]
    /\ UNCHANGED <<now, localShift, schedFile, counterFile, last, bumps,
                   genBumps, genConsumed, genFailed, headCommits, genDate,
                   genToday, race>>

NextStore == SaveCall \/ LoadCall

SpecStore == InitStore /\ [][NextStore]_vars

\* --------------------------------------------- main() invoked again and again
\* an invocation in which commit and push succeed
LiveOk == Draws("none")

\* An invocation in which the commit or the push fails; it is taken only
\* while enough calls of update_counter() are left to consume the schedule.
LiveFail ==
    /\ bumps + Len(load_commit_times(schedFile)) < MaxBumps
    /\ \E fail \in {"commit", "push"} : Draws(fail)

NextLive == Tick \/ LiveOk \/ LiveFail

\* The trigger fires for ever: time goes on, and an invocation in which
\* commit and push succeed comes eventually.
SpecLive == Init /\ [][NextLive]_vars /\ WF_vars(Tick) /\ WF_vars(LiveOk)

\* ------------------------------------------ two overlapping invocations
\* Two invocations of main() run at the same time on the same files, with
\* no lock.  Each step below is one access to a file or one git command; a
\* read or a write of a file is taken as one step.
Procs == {1, 2}

\* the local variables of an invocation before its first step
ProcStart ==
    [pc |-> "load", commit_times |-> <<>>, counter |-> 0, new_counter |-> 0,
     inc |-> 0,
     wrote |-> FALSE, committed |-> FALSE, pushed |-> FALSE, saved |-> FALSE]

\* the schedules found when the two invocations start: none, one due time,
\* two due times
RaceSchedules ==
    {[exists |-> FALSE, text |-> <<>>],
     save_commit_times(<<IsoFormat(StartNow - 1)>>),
     save_commit_times(<<IsoFormat(StartNow - 1), IsoFormat(StartNow)>>)}

InitRace ==
    /\ now = StartNow
    /\ localShift \in LocalShifts
    /\ schedFile \in RaceSchedules
    /\ counterFile \in {[exists |-> FALSE, value |-> <<>>], write_counter(IncMin + 6)}
    /\ last = NoInvocation
    /\ bumps = 0 /\ genBumps = 0 /\ genConsumed = 0 /\ genFailed = 0
    /\ headCommits = 0
    /\ genDate = [any |-> FALSE, date |-> 0]
    /\ genToday = 0
    /\ call = NoCall
    /\ race = [on |-> TRUE,
               procs |-> [p \in Procs |-> ProcStart],
               c0 |-> CounterValue(counterFile),
               lost |-> FALSE,
               decreased |-> FALSE]

RaceFrame ==
    UNCHANGED <<now, localShift, last, bumps, genBumps, genConsumed, genFailed,
                headCommits, genDate, genToday, call>>

\* the invocation p moves to the step pc with the local variables changed
Moved(p, pc, changes) ==
    [race EXCEPT !.procs[p] = [changes EXCEPT !.pc = pc]]

\* line 106: commit_times = load_commit_times(), and the tests that follow
RaceLoad(p) ==
    LET me == race.procs[p]
        commit_times == load_commit_times(schedFile)
        pc == IF commit_times = <<>> THEN "setup"
              ELSE IF IsDue(now, next_commit_time(commit_times)) THEN "exists"
              ELSE "done"
    IN /\ race.on /\ me.pc = "load"
       /\ race' = Moved(p, pc, [me EXCEPT !.commit_times = commit_times])
       /\ UNCHANGED <<schedFile, counterFile>>
       /\ RaceFrame

\* lines 110-113: the schedule is generated and saved
RaceSetup(p) ==
    LET me == race.procs[p]
    IN /\ race.on /\ me.pc = "setup"
       /\ \E num_commits \in NumCommits(now) :
             \E offsets \in [1..num_commits -> OffsetChoices(working_hours(now))] :
                 schedFile' = save_commit_times(
                     select_commit_times(working_hours(now), num_commits,
                                         offsets, now, localShift))
       /\ race' = Moved(p, "done", [me EXCEPT !.saved = TRUE])
       /\ UNCHANGED counterFile
       /\ RaceFrame

\* line 65: os.path.exists(COUNTER_FILE)
RaceExists(p) ==
    LET me == race.procs[p]
    IN /\ race.on /\ me.pc = "exists"
       /\ race' = Moved(p, IF counterFile.exists THEN "read" ELSE "create", me)
       /\ UNCHANGED <<schedFile, counterFile>>
       /\ RaceFrame

\* lines 66-67: the file is written as "0"
RaceCreate(p) ==
    LET me == race.procs[p]
        moved == Moved(p, "read", me)
    IN /\ race.on /\ me.pc = "create"
       /\ counterFile' = write_counter(0)
       /\ race' = [moved EXCEPT
                     !.lost = race.lost \/ CounterValue(counterFile) # 0,
                     !.decreased = race.decreased \/ CounterValue(counterFile) > 0]
       /\ UNCHANGED schedFile
       /\ RaceFrame

\* lines 69-73: the counter is read and the increment drawn
RaceRead(p) ==
    LET me == race.procs[p]
    IN /\ race.on /\ me.pc = "read"
       /\ \E increment \in Increments :
             race' = Moved(p, "write",
                           [me EXCEPT
                              !.counter = update_counter(counterFile, increment).counter,
                              !.new_counter =
                                  update_counter(counterFile, increment).new_counter,
                              !.inc = increment])
       /\ UNCHANGED <<schedFile, counterFile>>
       /\ RaceFrame

\* lines 75-76: new_counter is written
RaceWrite(p) ==
    LET me == race.procs[p]
        new_counter == me.new_counter
        moved == Moved(p, "commit", [me EXCEPT !.wrote = TRUE])
    IN /\ race.on /\ me.pc = "write"
       /\ counterFile' = write_counter(new_counter)
       /\ race' = [moved EXCEPT
                     !.lost = race.lost \/ CounterValue(counterFile) # me.counter,
                     !.decreased = race.decreased
                                     \/ new_counter < CounterValue(counterFile)]
       /\ UNCHANGED schedFile
       /\ RaceFrame

\* line 120: make_commit(), which succeeds or raises
RaceCommit(p) ==
    LET me == race.procs[p]
    IN /\ race.on /\ me.pc = "commit"
       /\ \E ok \in BOOLEAN :
             race' = Moved(p, IF ok \/ ~Reraises("commit") THEN "push" ELSE "done",
                           [me EXCEPT !.committed = ok])
       /\ UNCHANGED <<schedFile, counterFile>>
       /\ RaceFrame

\* line 121: push_changes(), which succeeds or raises
RacePush(p) ==
    LET me == race.procs[p]
    IN /\ race.on /\ me.pc = "push"
       /\ \E ok \in BOOLEAN :
             race' = Moved(p, IF ok \/ ~Reraises("push") THEN "save" ELSE "done",
                           [me EXCEPT !.pushed = ok])
       /\ UNCHANGED <<schedFile, counterFile>>
       /\ RaceFrame

\* lines 129-130: the head of the list loaded at line 106 is removed and
\* the list is saved
RaceSave(p) ==
    LET me == race.procs[p]
    IN /\ race.on /\ me.pc = "save"
       /\ schedFile' = save_commit_times(pop_head(me.commit_times))
       /\ race' = Moved(p, "done", [me EXCEPT !.saved = TRUE])
       /\ UNCHANGED counterFile
       /\ RaceFrame

NextRace ==
    \E p \in Procs :
        \/ RaceLoad(p) \/ RaceSetup(p) \/ RaceExists(p) \/ RaceCreate(p)
        \/ RaceRead(p) \/ RaceWrite(p) \/ RaceCommit(p) \/ RacePush(p)
        \/ RaceSave(p)

SpecRace == InitRace /\ [][NextRace]_vars

\* ================================================================ claims
\* the persisted schedule as the next invocation loads it
Times == load_commit_times(schedFile)
TimesNext == load_commit_times(schedFile')

\* the head of the persisted schedule is due
HeadDue == Times # <<>> /\ now >= FromIso(Times[1])

\* the step is an invocation that called update_counter()
CommitStep == bumps' = bumps + 1

\* C1: no schedule entry is the head entry of two invocations that both
\* create a commit: the head entry of an invocation has received at most
\* one commit in all.
C1_OneCommitPerEntry == last.entryCommits <= 1

\* C2: the counter after a step is never less than the counter before it.
C2_CounterNeverDecremented ==
    [][CounterValue(counterFile') >= CounterValue(counterFile)]_vars

\* an aborted invocation that follows an earlier bump: the counter keeps both
C2_Witness ==
    /\ last.branch = "commit" /\ last.fail = "commit"
    /\ bumps = 2 /\ CounterValue(counterFile) >= 2 * IncMin

\* the times of a schedule are in ascending order
Ascending(times) ==
    \A i \in 1..Len(times) : \A j \in i..Len(times) :
        FromIso(times[i]) <= FromIso(times[j])

\* C3: the persisted schedule is always sorted ascending; a step leaves it
\* alone, replaces an empty schedule by a generated one, or removes its head.
C3_SortedConsumedOnce ==
    /\ []Ascending(Times)
    /\ [][\/ TimesNext = Times
          \/ Times = <<>> /\ last'.branch = "setup"
          \/ Times # <<>> /\ TimesNext = Tail(Times)]_vars

\* the head of a schedule of two different times was removed
C3_Witness ==
    /\ last.branch = "commit" /\ last.fail = "none" /\ last.prevLen = 2
    /\ Len(Times) = 1 /\ genConsumed = 1

\* C4: with a non-empty schedule whose first time is later than now, a step
\* changes neither the schedule nor the counter, and an invocation performs
\* no commit and no push.
C4_NoOpBeforeHead ==
    [][(Times # <<>> /\ now < FromIso(Times[1])) =>
          /\ schedFile' = schedFile
          /\ counterFile' = counterFile
          /\ bumps' = bumps
          /\ (last' # last =>
                 /\ last'.branch = "wait"
                 /\ last'.commits = 0 /\ last'.pushes = 0
                 /\ last'.steps = <<>>)]_vars

\* an invocation found a schedule whose first time was still to come
C4_Witness ==
    /\ last.branch = "wait" /\ Times # <<>> /\ now < FromIso(Times[1])
    /\ last.prevLen = Len(Times)

\* C5 as stated: with the schedule [T1] and now >= T1 an invocation executes
\* exactly one commit, advances the counter by a value in [1,100] and leaves
\* the empty schedule.
C5_SingleDueAsStated ==
    [][(Len(Times) = 1 /\ HeadDue /\ CommitStep) =>
          /\ last'.commits = 1
          /\ CounterValue(counterFile') - CounterValue(counterFile) \in IncMin..IncMax
          /\ TimesNext = <<>>]_vars

\* C5 amended: with the schedule [T1] and now >= T1 an invocation advances
\* the counter by a value in [1,100] and executes at most one commit; when
\* commit and push succeed it executes exactly one commit and leaves the
\* empty schedule; when the commit fails no commit is executed, when the
\* push fails one is, and in both cases the schedule is still [T1].
C5_SingleDue ==
    [][(Len(Times) = 1 /\ HeadDue /\ CommitStep) =>
          /\ CounterValue(counterFile') - CounterValue(counterFile) \in IncMin..IncMax
          /\ last'.commits <= 1
          /\ (last'.fail = "none" => last'.commits = 1 /\ TimesNext = <<>>)
          /\ (last'.fail = "commit" => last'.commits = 0 /\ TimesNext = Times)
          /\ (last'.fail = "push" => last'.commits = 1 /\ TimesNext = Times)]_vars

\* the single entry of a schedule was committed, pushed and removed
C5_Witness ==
    /\ last.branch = "commit" /\ last.fail = "none" /\ last.prevLen = 1
    /\ last.commits = 1 /\ last.inc = IncMax /\ Times = <<>> /\ schedFile.exists

\* C6: an invocation that finds no stored schedule persists a schedule of at
\* least one time and bumps no counter, commits nothing and pushes nothing.
C6_EmptyToPending ==
    [][(Times = <<>> /\ last' # last) =>
          /\ last'.branch = "setup"
          /\ schedFile'.exists /\ Len(TimesNext) >= 1
          /\ counterFile' = counterFile /\ bumps' = bumps
          /\ last'.commits = 0 /\ last'.pushes = 0]_vars

\* a schedule was generated after the one before it had been used up
C6_Witness ==
    /\ last.branch = "setup" /\ Len(Times) >= 1 /\ genConsumed = 0
    /\ bumps >= 1 /\ last.commits = 0

\* C7: an invocation executes at most one commit and removes at most one
\* entry, and after a successful commit the schedule is the previous one
\* without its first entry.
C7_OneCommitPerInvocation ==
    [][CommitStep =>
          /\ last'.commits <= 1
          /\ Len(Times) - Len(TimesNext) <= 1
          /\ (last'.commits = 1 => TimesNext = Tail(Times))]_vars

\* C8: at most one schedule is generated on one date.
C8_OncePerDay == genToday <= 1

\* the step is an invocation in which the commit or the push failed
GitFailureStep == last' # last /\ last'.fail \in {"commit", "push"}

\* C9 as stated: when commit or push fails the error is logged, the schedule
\* is unchanged and the bumps since generation equal the entries consumed.
C9_FailureAsStated ==
    [][GitFailureStep =>
          /\ Len(last'.errors) = 2 /\ ~last'.propagated
          /\ schedFile' = schedFile
          /\ genBumps' = genConsumed']_vars

\* C9 amended: when commit or push fails, the error is logged by the failing
\* function and by main(), the invocation ends, the schedule is unchanged
\* and the bump made before the failure stays: the bumps since generation
\* equal the entries consumed plus the invocations that failed so.
C9_FailureKeepsBump ==
    /\ [](genBumps = genConsumed + genFailed)
    /\ [][GitFailureStep =>
             /\ last'.errors \in {<<"Commit failed", "Script error">>,
                                  <<"Push failed", "Script error">>}
             /\ ~last'.propagated
             /\ last'.steps # <<>> /\ last'.steps[Len(last'.steps)] # "save"
             /\ schedFile' = schedFile
             /\ genFailed' = genFailed + 1
             /\ CounterValue(counterFile') > CounterValue(counterFile)]_vars

\* a push failed: the counter is bumped and the entry is still there
C9_Witness ==
    /\ last.fail = "push" /\ last.commits = 1 /\ last.pushes = 0
    /\ genFailed = 1 /\ genBumps = 1 /\ genConsumed = 0 /\ Times # <<>>

\* C10: no failure inside main() leaves main(): each is caught by the
\* handler of main() and logged.
C10_AlwaysReturns ==
    /\ ~last.propagated
    /\ (last.raised # "none" =>
           last.errors # <<>> /\ last.errors[Len(last.errors)] = "Script error")

\* a failure that is not a git error was caught: saving the schedule failed
C10_Witness ==
    /\ last.fail = "save" /\ last.raised = "OSError" /\ ~last.propagated
    /\ last.errors = <<"Script error">>

\* a call of select_commit_times has returned or raised
Selected == call.fn = "select_commit_times" /\ call.done

C13_InvalidWindow ==
    (Selected /\ call.args.wh[2] <= call.args.wh[1]) =>
        call.ret.raised = "InvalidWindow" /\ call.ret.times = <<>>

\* the step is an invocation that generated and persisted a schedule
SetupStep == Times = <<>> /\ TimesNext # <<>>

\* every time of the schedule is on the date d, between the hours lo and hi
\* of US/Eastern
WithinHours(times, d, lo, hi) ==
    \A i \in 1..Len(times) : times[i][1] = d /\ times[i][2] \in lo..hi

\* C12: a schedule generated on Sunday has exactly one time, between 11:00
\* and 16:00; one generated on another weekday has 1 to MaxCommits times,
\* between 09:00 and 19:00.
C12_RestrictedDay ==
    [][SetupStep =>
          IF Weekday(now) = Sunday
          THEN /\ Len(TimesNext) = 1
               /\ WithinHours(TimesNext, Date(now), SundayStart, SundayEnd)
          ELSE /\ Len(TimesNext) \in 1..MaxCommits
               /\ WithinHours(TimesNext, Date(now), WeekdayStart, WeekdayEnd)]_vars

\* C16: every time of a schedule is later than the now of the invocation
\* that generates it.
C16_GeneratedInFuture ==
    [][SetupStep => \A i \in 1..Len(TimesNext) : FromIso(TimesNext[i]) > now]_vars

\* the value a run of calls of update_counter() starts from
InitialValue ==
    IF call.args.initial.exists THEN IntOfStr(call.args.initial.value) ELSE 0

\* C14: after N calls of update_counter() the stored counter is the initial
\* value, 0 for an absent file, plus the sum of the N increments; a call
\* returns the value stored before it and the value stored after it, which
\* differ by 1 to 100.
C14_BumpsAddUp ==
    (call.fn = "update_counter" /\ call.done) =>
        /\ CounterValue(counterFile) = InitialValue + call.ret.sum
        /\ counterFile.exists
        /\ call.ret.counter = call.ret.stored
        /\ call.ret.new_counter = CounterValue(counterFile)
        /\ call.ret.new_counter - call.ret.counter \in IncMin..IncMax

\* three calls on an absent file
C14_Witness ==
    /\ call.fn = "update_counter" /\ call.done /\ ~call.args.initial.exists
    /\ call.ret.n = 3 /\ call.ret.sum = IncMin + IncMax + IncMax - 1
    /\ CounterValue(counterFile) = call.ret.sum

\* C15: load_commit_times() after save_commit_times(schedule) returns the
\* schedule, and load_commit_times() returns [] when there is no file.
C15_RoundTrip ==
    call.done =>
        /\ call.fn = "save_load" => call.ret = call.args.schedule
        /\ (call.fn = "load_commit_times" /\ ~call.args.found) => call.ret = <<>>

\* a schedule of two different texts, the later first, came back as saved
C15_Witness ==
    /\ call.fn = "save_load" /\ call.done
    /\ call.args.schedule = <<IsoFormat(StartNow + 1), IsoFormat(StartNow)>>
    /\ call.ret = call.args.schedule

\* the steps of a committing invocation, in the order of the code
CommitOrder == <<"counter", "commit", "push", "save">>

\* C17: a committing invocation writes the counter, then attempts the
\* commit, then the push, then removes the head and saves, each step only
\* after the one before it succeeded; after a failed commit the counter
\* holds the bumped value and the schedule still holds the due time.
C17_StepOrder ==
    [][CommitStep =>
          LET steps == last'.steps
          IN /\ Len(steps) \in 2..4
             /\ steps = SubSeq(CommitOrder, 1, Len(steps))
             /\ CounterValue(counterFile') = CounterValue(counterFile) + last'.inc
             /\ last'.inc >= IncMin
             /\ (Len(steps) >= 3 <=> last'.commits = 1)
             /\ (Len(steps) = 4 <=> last'.pushes = 1)
             /\ (Len(steps) = 4 => TimesNext = Tail(Times))
             /\ (Len(steps) < 4 => schedFile' = schedFile)
             /\ (last'.fail = "commit" =>
                    /\ steps = <<"counter", "commit">>
                    /\ CounterValue(counterFile') > CounterValue(counterFile)
                    /\ TimesNext = Times /\ HeadDue)]_vars

\* the commit failed: the counter is bumped and the due time is still there
C17_Witness ==
    /\ last.fail = "commit" /\ last.steps = <<"counter", "commit">>
    /\ last.inc = IncMax /\ CounterValue(counterFile) = IncMax
    /\ last.commits = 0 /\ HeadDue /\ Len(Times) = last.prevLen

\* the step changes the persisted schedule
ScheduleChanges == TimesNext # Times

\* C20: the persisted schedule changes only from empty to a generated
\* non-empty list, or by losing its first entry in an invocation whose
\* bump, commit and push all succeeded.
C20_ScheduleFrame ==
    [][ScheduleChanges =>
          \/ /\ Times = <<>> /\ TimesNext # <<>>
             /\ last'.branch = "setup"
          \/ /\ Times # <<>> /\ TimesNext = Tail(Times)
             /\ last'.branch = "commit" /\ last'.fail = "none"
             /\ last'.inc >= IncMin /\ last'.commits = 1 /\ last'.pushes = 1]_vars

\* the first of two different times was removed and the second one is left
C20_Witness ==
    /\ last.branch = "commit" /\ last.fail = "none" /\ last.prevLen = 2
    /\ Len(Times) = 1 /\ last.pushes = 1
    /\ \E d \in 1..(WeekdayEnd - WeekdayStart) :
          FromIso(Times[1]) = WindowInstant(now, WeekdayStart, localShift) + d

\* A schedule is stored whose times the clock of the model reaches and for
\* which enough calls of update_counter() are left.
Consumable ==
    /\ Times # <<>>
    /\ FromIso(Times[Len(Times)]) <= StartNow + MaxHours
    /\ bumps + Len(Times) <= MaxBumps

\* C19: when main() is invoked again and again, time passes every stored
\* time and commit and push succeed in the end, the stored schedule becomes
\* empty, and from the empty schedule the next invocation generates one.
C19_ConsumedThenRegenerated ==
    /\ Consumable ~> (Times = <<>> /\ schedFile.exists)
    /\ (Times = <<>> /\ schedFile.exists /\ bumps < MaxBumps)
          ~> (Times # <<>> /\ last.branch = "setup")

\* the only entry was consumed after an invocation that failed
C19_Witness ==
    /\ Times = <<>> /\ schedFile.exists /\ last.branch = "commit"
    /\ genConsumed = 1 /\ genFailed = 1 /\ bumps = 2

\* both overlapping invocations have returned
BothDone == race.on /\ \A p \in Procs : race.procs[p].pc = "done"

\* the increments of the invocations that wrote the counter
RECURSIVE WrittenSum(_)
WrittenSum(ps) ==
    IF ps = {} THEN 0
    ELSE LET p == CHOOSE q \in ps : TRUE
         IN (IF race.procs[p].wrote THEN race.procs[p].inc ELSE 0)
              + WrittenSum(ps \ {p})

\* C18: two overlapping invocations can both read the same head and both
\* commit for it, and can lose an update of the counter.  What holds in
\* every interleaving: once both have returned, the counter is the initial
\* value plus both increments exactly when no write replaced a value its
\* writer had not read, and the counter only decreases in such a write.
C18_RaceOutcome ==
    /\ BothDone =>
          (CounterValue(counterFile) = race.c0 + WrittenSum(Procs) <=> ~race.lost)
    /\ race.on => (race.decreased => race.lost)

\* both invocations loaded the same two due times and committed for the
\* first, one update of the counter is lost and the stored counter decreased
C18_Witness ==
    /\ BothDone
    /\ race.procs[1].commit_times = race.procs[2].commit_times
    /\ Len(race.procs[1].commit_times) = 2
    /\ \A p \in Procs : /\ race.procs[p].committed /\ race.procs[p].pushed
                        /\ race.procs[p].saved /\ race.procs[p].wrote
    /\ CounterValue(counterFile) # race.c0 + race.procs[1].inc + race.procs[2].inc
    /\ race.decreased
    /\ Len(Times) = 1

====
